---- MODULE Spec2Model ----
(***************************************************************************)
(* A model of jsonschema-rewrite/src/schema/graph.rs: the three passes of  *)
(* `build` (AdjacencyList::new, RangeGraph::try_from, RangeGraph::compress)*)
(* over a set of JSON documents.                                           *)
(*                                                                         *)
(* A JSON value is identified by its address (the key of VisitedMap).  The *)
(* model numbers the values of all documents 1..Len(values); value 0 is    *)
(* the static `Value::Null` of the sentinel.  The value of a `$ref` member *)
(* of object v is the value -v: it has an address of its own, and the      *)
(* code never enqueues it.                                                 *)
(***************************************************************************)
EXTENDS Integers, Sequences, FiniteSets, TLC

\* Bounds of the generated document sets.
NumValues == 4

-----------------------------------------------------------------------------
(* EdgeLabel *)

Key(k) == [tag |-> "Key", key |-> k, idx |-> 0]

Index(i) == [tag |-> "Index", key |-> "", idx |-> i]

\* EdgeLabel::as_key, "" standing for None (no member key of the model is empty).
as_key(label) == IF label.tag = "Key" THEN label.key ELSE ""

Edge(label, target) == [label |-> label, target |-> target]

-----------------------------------------------------------------------------
(* The documents: serde_json values.                                       *)

\* The keys of the generated objects, in the byte order in which
\* serde_json's Map (a BTreeMap) enumerates them; "$ref" sorts between
\* "$id" and the rest and is kept in the object's `ref` field.
KeyOrder == <<"$id", "a", "maximum", "properties", "type">>

KeyRank(k) == CHOOSE i \in 1..Len(KeyOrder) : KeyOrder[i] = k

Keys == {KeyOrder[i] : i \in 1..Len(KeyOrder)}

\* The scalars that matter to the code under each key: `uint` is a number
\* as_u64 accepts, `neg` a number it refuses, the rest are strings.
ScalarsUnder(k) ==
    CASE k = "$id" -> {"folder"}
      [] k = "type" -> {"string", "bogus"}
      [] k = "maximum" -> {"uint", "neg"}
      [] OTHER -> {"uint"}

IsString(scal) == scal \in {"string", "integer", "bogus", "folder"}

NoRef == [cls |-> "none", dir |-> 0, file |-> 0, ptr |-> <<>>]

Val(parent, kind, key, scal) ==
    [parent |-> parent, kind |-> kind, key |-> key, scal |-> scal, ref |-> NoRef]

\* The addresses of the values of document set d.
ValueIds(d) == 1..Len(d)

ChildIds(d, v) == {c \in ValueIds(d) : d[c].parent = v}

\* The label under which the parent holds value c: the key of an object
\* member, the position of an array element.
LabelOf(d, c) ==
    LET p == d[c].parent IN
    IF d[p].kind = "object"
      THEN Key(d[c].key)
      ELSE Index(Cardinality({x \in ChildIds(d, p) : x < c}))

RECURSIVE SortedSeq(_)
SortedSeq(S) ==
    IF S = {} THEN <<>>
    ELSE LET m == CHOOSE x \in S : \A y \in S : x <= y
         IN <<m>> \o SortedSeq(S \ {m})

\* The members of a container in the order the code enumerates them: an
\* object's by key, an array's by position.  The generated documents give
\* later members higher addresses.
Members(d, v) == SortedSeq(ChildIds(d, v))

\* The JSON pointer from the root of its document to value t.
RECURSIVE PathOf(_, _)
PathOf(d, t) ==
    IF d[t].parent = 0 THEN <<>>
    ELSE Append(PathOf(d, d[t].parent), LabelOf(d, t))

\* A document is named by its root value: 1 is the schema, 2 (when it has
\* no parent) the external document.
RECURSIVE DocOf(_, _)
DocOf(d, v) == IF d[v].parent = 0 THEN v ELSE DocOf(d, d[v].parent)

HasExternal(d) == Len(d) >= 2 /\ d[2].parent = 0

-----------------------------------------------------------------------------
(* Locations.  A URL is a directory depth and a file; file 1 is the       *)
(* schema's, file 2 the external document's, file 3 is fetched nowhere.   *)

Url(dir, file) == [dir |-> dir, file |-> file]

RootUrl == Url(0, 1)

ExternalUrl(e) == Url(e, 2)

UnknownUrl == Url(0, 3)

\* The reference strings a `$ref` member may hold in document set d.
Pointers(d) == {PathOf(d, t) : t \in ValueIds(d)} \cup {<<Key("nowhere")>>}

Ref(cls, url, ptr) == [cls |-> cls, dir |-> url.dir, file |-> url.file, ptr |-> ptr]

RefStrings(d, e) ==
    {Ref("malformed", Url(0, 0), <<>>), Ref("unjoinable", Url(0, 0), <<>>)}
    \cup {Ref("local", Url(0, 0), p) : p \in Pointers(d)}
    \cup {Ref("relative", Url(0, f), p) : f \in 1..2, p \in Pointers(d)}
    \cup {Ref("relative", Url(0, 3), <<>>)}
    \cup {Ref("absolute", u, p) : u \in {ExternalUrl(e), UnknownUrl}, p \in Pointers(d)}

\* A `$ref` member whose value is not a string.
NonStringRef == [cls |-> "nonstring", dir |-> 0, file |-> 0, ptr |-> <<>>]

RefValues(d, e) == RefStrings(d, e) \cup {NonStringRef}

-----------------------------------------------------------------------------
(* The generated document sets: every forest of at most NumValues values  *)
(* over Keys, in breadth-first numbering, the values of `$ref` members     *)
(* counted among them.                                                     *)

Containers == {"object", "array"}

Kinds == Containers \cup {"scalar"}

RootValues == {Val(0, k, "", IF k = "scalar" THEN "uint" ELSE "") : k \in Kinds}

\* The values a container may hold under key k ("" in an array).
ValuesAt(p, k) ==
    {Val(p, "scalar", k, scal) : scal \in ScalarsUnder(k)}
    \cup (IF k = "$id" THEN {} ELSE {Val(p, "object", k, "")})
    \cup (IF k \in {"a", ""} THEN {Val(p, "array", k, "")} ELSE {})

\* The values that may follow the last value of d.
NextValues(d) ==
    LET n == Len(d)
        last == d[n]
        parents == {p \in 1..n : p >= last.parent /\ d[p].kind \in Containers}
        keys(p) == IF d[p].kind = "array" THEN {""}
                   ELSE {k \in Keys : last.parent = p => KeyRank(k) > KeyRank(last.key)}
    IN  (IF n = 1 THEN RootValues ELSE {})
        \cup UNION {UNION {ValuesAt(p, k) : k \in keys(p)} : p \in parents}

RECURSIVE Forests(_)
Forests(n) ==
    IF n = 1 THEN {<<r>> : r \in RootValues}
    ELSE Forests(n - 1) \cup
         UNION {{Append(d, x) : x \in NextValues(d)} :
                  d \in {f \in Forests(n - 1) : Len(f) = n - 1}}

Objects(d) == {v \in ValueIds(d) : d[v].kind = "object"}

\* Whether some reference of d names the external document's location.
NamesExternal(d, e) ==
    \E v \in ValueIds(d) :
        \/ d[v].ref.cls = "relative" /\ d[v].ref.file = 2
        \/ d[v].ref.cls = "absolute" /\ Url(d[v].ref.dir, d[v].ref.file) = ExternalUrl(e)

VARIABLES
    values,         \* the values of all documents, by address
    ext_dir,        \* the directory of the external document's location
    nodes,          \* AdjacencyList.nodes
    edges,          \* AdjacencyList.edges
    visited,        \* AdjacencyList.visited
    queue,          \* the work queue of AdjacencyList::new
    scopes,         \* the `scope` each node was dequeued with, by NodeId
    range_nodes,    \* RangeGraph.nodes
    range_edges,    \* RangeGraph.edges
    range_visited,  \* `visited` of RangeGraph::try_from
    range_queue,    \* `queue` of RangeGraph::try_from, by NodeId
    pc,             \* where `build` is
    outcome         \* how `build` ended: a returned Err or Ok, or a panic

vars == <<values, ext_dir, nodes, edges, visited, queue, scopes,
          range_nodes, range_edges, range_visited, range_queue, pc, outcome>>

documents == <<values, ext_dir>>

adjacency_list == <<nodes, edges, visited, queue, scopes>>

range_graph == <<range_nodes, range_edges, range_visited, range_queue>>

-----------------------------------------------------------------------------
(* NodeId.  A Vec indexed by NodeId i is a sequence read at i + 1.         *)

At(vec, id) == vec[id + 1]

NodeIds == 0..(Len(nodes) - 1)

\* NodeId::is_root
is_root(id) == id = 0

-----------------------------------------------------------------------------
(* schema::resolving, as the specification describes it.                   *)

\* id_of_object: the `$id` of an object when it is a string, as an Option.
id_of_object(d, v) ==
    LET ids == {c \in ChildIds(d, v) :
                  d[v].kind = "object" /\ d[c].key = "$id" /\ IsString(d[c].scal)}
    IN  IF ids = {} THEN <<>> ELSE <<d[CHOOSE c \in ids : TRUE].scal>>

\* The value a JSON pointer designates below v (0: none) and the `$id`s of
\* the objects passed on the way.
RECURSIVE Pointer(_, _, _)
Pointer(d, v, ptr) ==
    IF ptr = <<>> THEN [folders |-> <<>>, value |-> v]
    ELSE LET cs == {c \in ChildIds(d, v) : LabelOf(d, c) = Head(ptr)} IN
         IF cs = {} THEN [folders |-> <<>>, value |-> 0]
         ELSE LET rest == Pointer(d, CHOOSE c \in cs : TRUE, Tail(ptr))
              IN  [folders |-> id_of_object(d, v) \o rest.folders,
                   value |-> rest.value]

\* Resolver::resolve: a resolver is bound to one document and looks the
\* reference's pointer up in it.
resolve(resolver, reference) == Pointer(values, resolver, reference.ptr)

\* Resolver::scope: the base location of the resolver's document.
ResolverScope(resolver) == IF resolver = 1 THEN RootUrl ELSE ExternalUrl(ext_dir)

\* Resolver::contains
contains(resolver, location) == location = ResolverScope(resolver)

\* resolvers.get(location), as a set of at most one resolver: the registry
\* holds the external documents.
resolvers_get(location) ==
    {r \in (IF HasExternal(values) THEN {2} ELSE {}) : ResolverScope(r) = location}

\* Reference::try_from
ReferenceKind(reference) ==
    CASE reference.cls = "malformed" -> "Err"
      [] reference.cls = "absolute" -> "Absolute"
      [] OTHER -> "Relative"

is_local(reference) == reference.cls = "local"

\* Url::join with an `$id`: one directory down.
JoinFolder(url, folder) == Url(url.dir + 1, 0)

RECURSIVE JoinFolders(_, _)
JoinFolders(url, folders) ==
    IF folders = <<>> THEN url
    ELSE JoinFolders(JoinFolder(url, Head(folders)), Tail(folders))

-----------------------------------------------------------------------------
(* Scope *)

\* Scope::with_folders
with_folders(resolver, folders) == [resolver |-> resolver, folders |-> folders]

\* Scope::new
ScopeNew(resolver) == with_folders(resolver, <<>>)

\* Scope::track_folder
track_folder(scope, object) ==
    [scope EXCEPT !.folders = @ \o id_of_object(values, object)]

\* Scope::build_url: the base joined with every folder but the first, then
\* with the reference.
build_url(scope, base, reference) ==
    LET location == IF Len(scope.folders) > 1
                      THEN JoinFolders(base, Tail(scope.folders))
                      ELSE base
    IN  IF reference.cls = "unjoinable"
          THEN [ok |-> FALSE, url |-> location]
          ELSE [ok |-> TRUE, url |-> Url(location.dir, reference.file)]

-----------------------------------------------------------------------------
(* AdjacencyList *)

Item(scope, parent_id, label, node) ==
    [scope |-> scope, parent_id |-> parent_id, label |-> label, node |-> node]

Resolved(status, scope, node) == [status |-> status, scope |-> scope, node |-> node]

\* ResolveRef with the missing resolver reported with `?` (ok_or) instead
\* of the expect.
ResolveRef_erroring(scope, reference) ==
    IF reference.cls \in {"none", "nonstring"} THEN Resolved("none", scope, 0)
    ELSE IF ReferenceKind(reference) = "Err" THEN Resolved("err", scope, 0)
    ELSE IF ReferenceKind(reference) = "Absolute" THEN
        LET found == resolvers_get(Url(reference.dir, reference.file)) IN
        IF found # {}
          THEN LET resolver == CHOOSE r \in found : TRUE
                   got == resolve(resolver, reference)
               IN  IF got.value = 0 THEN Resolved("err", scope, 0)
                   ELSE Resolved("ok", with_folders(resolver, got.folders), got.value)
          ELSE LET got == resolve(scope.resolver, reference)
               IN  IF got.value = 0 THEN Resolved("err", scope, 0)
                   ELSE Resolved("ok", scope, got.value)
    ELSE
        LET built == build_url(scope, ResolverScope(scope.resolver), reference)
            found == resolvers_get(built.url)
            stay == is_local(reference) \/ contains(scope.resolver, built.url)
            resolver == IF stay THEN scope.resolver ELSE CHOOSE r \in found : TRUE
            got == resolve(resolver, reference)
        IN  IF ~is_local(reference) /\ ~built.ok THEN Resolved("err", scope, 0)
            ELSE IF ~stay /\ found = {} THEN Resolved("err", scope, 0)
            ELSE IF got.value = 0 THEN Resolved("err", scope, 0)
            ELSE Resolved("ok", with_folders(resolver, got.folders), got.value)

\* ResolveRef with the registry's resolver ignored: an absolute reference
\* is always resolved in the resolver of the current scope.
ResolveRef_in_current_scope(scope, reference) ==
    IF reference.cls \in {"none", "nonstring"} THEN Resolved("none", scope, 0)
    ELSE IF ReferenceKind(reference) = "Err" THEN Resolved("err", scope, 0)
    ELSE IF ReferenceKind(reference) = "Absolute" THEN
        LET found == resolvers_get(Url(reference.dir, reference.file)) IN
        IF found # {}
          THEN LET got == resolve(scope.resolver, reference)
               IN  IF got.value = 0 THEN Resolved("err", scope, 0)
                   ELSE Resolved("ok", scope, got.value)
          ELSE LET got == resolve(scope.resolver, reference)
               IN  IF got.value = 0 THEN Resolved("err", scope, 0)
                   ELSE Resolved("ok", scope, got.value)
    ELSE
        LET built == build_url(scope, ResolverScope(scope.resolver), reference)
            found == resolvers_get(built.url)
            stay == is_local(reference) \/ contains(scope.resolver, built.url)
            resolver == IF stay THEN scope.resolver ELSE CHOOSE r \in found : TRUE
            got == resolve(resolver, reference)
        IN  IF ~is_local(reference) /\ ~built.ok THEN Resolved("err", scope, 0)
            ELSE IF ~stay /\ found = {} THEN Resolved("panic", scope, 0)
            ELSE IF got.value = 0 THEN Resolved("err", scope, 0)
            ELSE Resolved("ok", with_folders(resolver, got.folders), got.value)

\* What the `$ref` member of an object does in AdjacencyList::new: "none"
\* (no such member, or its value is no string), "ok" with the scope and
\* the value to enqueue, "err" (a `?` returns), "panic" (the expect).
ResolveRef(scope, reference) ==
    IF reference.cls \in {"none", "nonstring"} THEN Resolved("none", scope, 0)
    ELSE IF ReferenceKind(reference) = "Err" THEN Resolved("err", scope, 0)
    ELSE IF ReferenceKind(reference) = "Absolute" THEN
        LET found == resolvers_get(Url(reference.dir, reference.file)) IN
        IF found # {}
          THEN LET resolver == CHOOSE r \in found : TRUE
                   got == resolve(resolver, reference)
               IN  IF got.value = 0 THEN Resolved("err", scope, 0)
                   ELSE Resolved("ok", with_folders(resolver, got.folders), got.value)
          ELSE LET got == resolve(scope.resolver, reference)
               IN  IF got.value = 0 THEN Resolved("err", scope, 0)
                   ELSE Resolved("ok", scope, got.value)
    ELSE
        LET built == build_url(scope, ResolverScope(scope.resolver), reference)
            found == resolvers_get(built.url)
            stay == is_local(reference) \/ contains(scope.resolver, built.url)
            resolver == IF stay THEN scope.resolver ELSE CHOOSE r \in found : TRUE
            got == resolve(resolver, reference)
        IN  IF ~is_local(reference) /\ ~built.ok THEN Resolved("err", scope, 0)
            ELSE IF ~stay /\ found = {} THEN Resolved("panic", scope, 0)
            ELSE IF got.value = 0 THEN Resolved("err", scope, 0)
            ELSE Resolved("ok", with_folders(resolver, got.folders), got.value)

\* push with the node appended before the visited map is consulted: a
\* value seen before gets a second node (and is still not expanded again).
push_appending_first(parent_id, label, node) ==
    LET is_new == node \notin DOMAIN visited
        id == Len(nodes)
    IN  [id |-> id,
         is_new |-> is_new,
         nodes |-> Append(nodes, node),
         edges |-> [Append(edges, <<>>) EXCEPT ![parent_id + 1] = Append(@, Edge(label, id))],
         visited |-> IF is_new THEN visited @@ (node :> id) ELSE visited]

\* push with the visited map keyed by the value instead of its address:
\* equal scalars share a node.
push_by_equality(parent_id, label, node) ==
    LET same == {w \in DOMAIN visited :
                   \/ w = node
                   \/ /\ values[w].kind = "scalar" /\ values[node].kind = "scalar"
                      /\ values[w].scal = values[node].scal}
        is_new == same = {}
        id == IF is_new THEN Len(nodes)
              ELSE visited[CHOOSE w \in same : \A x \in same : w <= x]
        grown == IF is_new THEN Append(edges, <<>>) ELSE edges
    IN  [id |-> id,
         is_new |-> is_new,
         nodes |-> IF is_new THEN Append(nodes, node) ELSE nodes,
         edges |-> [grown EXCEPT ![parent_id + 1] = Append(@, Edge(label, id))],
         visited |-> IF is_new THEN visited @@ (node :> id) ELSE visited]

\* push with every slot reported as NodeSlot::new, the occupied ones too.
push_always_new(parent_id, label, node) ==
    LET is_new == node \notin DOMAIN visited
        id == IF is_new THEN Len(nodes) ELSE visited[node]
        grown == IF is_new THEN Append(edges, <<>>) ELSE edges
    IN  [id |-> id,
         is_new |-> TRUE,
         nodes |-> IF is_new THEN Append(nodes, node) ELSE nodes,
         edges |-> [grown EXCEPT ![parent_id + 1] = Append(@, Edge(label, id))],
         visited |-> IF is_new THEN visited @@ (node :> id) ELSE visited]

\* AdjacencyList::push: the slot of `node`, and the lists after the push.
push(parent_id, label, node) ==
    LET is_new == node \notin DOMAIN visited
        id == IF is_new THEN Len(nodes) ELSE visited[node]
        grown == IF is_new THEN Append(edges, <<>>) ELSE edges
    IN  [id |-> id,
         is_new |-> is_new,
         nodes |-> IF is_new THEN Append(nodes, node) ELSE nodes,
         edges |-> [grown EXCEPT ![parent_id + 1] = Append(@, Edge(label, id))],
         visited |-> IF is_new THEN visited @@ (node :> id) ELSE visited]

\* Expand with a failing `$ref` member skipped instead of returned with `?`.
Expand_skipping_failures(scope, id, node) ==
    LET v == values[node]
        tracked == IF v.kind = "object" THEN track_folder(scope, node) ELSE scope
        members == Members(values, node)
        items == [k \in 1..Len(members) |->
                    Item(tracked, id, LabelOf(values, members[k]), members[k])]
    IN  [status |-> "none", scope |-> tracked, items |-> items]

\* Expand with the members enqueued last to first.
Expand_reversed(scope, id, node) ==
    LET v == values[node]
        tracked == IF v.kind = "object" THEN track_folder(scope, node) ELSE scope
        members == Members(values, node)
        item(c) == Item(tracked, id, LabelOf(values, c), c)
        before == SelectSeq(members, LAMBDA c : v.kind = "object" /\ values[c].key = "$id")
        after == SelectSeq(members, LAMBDA c : ~(v.kind = "object" /\ values[c].key = "$id"))
        ref == IF v.kind = "object" THEN ResolveRef(tracked, v.ref)
               ELSE Resolved("none", scope, 0)
        items(cs) == [k \in 1..Len(cs) |-> item(cs[k])]
        forward == items(before)
                   \o (IF ref.status = "ok"
                         THEN <<Item(ref.scope, id, Key("$ref"), ref.node)>> ELSE <<>>)
                   \o (IF ref.status \in {"ok", "none"} THEN items(after) ELSE <<>>)
    IN  [status |-> ref.status,
         scope |-> tracked,
         items |-> [k \in 1..Len(forward) |-> forward[Len(forward) + 1 - k]]]

\* The items the expansion of `node` enqueues, up to the member that fails,
\* and how the expansion ends.
Expand(scope, id, node) ==
    LET v == values[node]
        tracked == IF v.kind = "object" THEN track_folder(scope, node) ELSE scope
        members == Members(values, node)
        item(c) == Item(tracked, id, LabelOf(values, c), c)
        before == SelectSeq(members, LAMBDA c : v.kind = "object" /\ values[c].key = "$id")
        after == SelectSeq(members, LAMBDA c : ~(v.kind = "object" /\ values[c].key = "$id"))
        ref == IF v.kind = "object" THEN ResolveRef(tracked, v.ref)
               ELSE Resolved("none", scope, 0)
        items(cs) == [k \in 1..Len(cs) |-> item(cs[k])]
    IN  [status |-> ref.status,
         scope |-> tracked,
         items |-> items(before)
                   \o (IF ref.status = "ok"
                         THEN <<Item(ref.scope, id, Key("$ref"), ref.node)>> ELSE <<>>)
                   \o (IF ref.status \in {"ok", "none"} THEN items(after) ELSE <<>>)]

\* How `build` ends.  A panic returns nothing.
Running == [kind |-> "none", error |-> "", nodes |-> <<>>, edges |-> <<>>]

Err(error) == [kind |-> "Err", error |-> error, nodes |-> <<>>, edges |-> <<>>]

Panic(message) == [kind |-> "panic", error |-> message, nodes |-> <<>>, edges |-> <<>>]

\* range_of without the `+ 1`: the end is the last child, not one past it.
range_of_inclusive(target_id) ==
    LET es == At(edges, target_id) IN
    IF es = <<>> THEN [start |-> 0, end |-> 0]
    ELSE [start |-> es[1].target, end |-> es[Len(es)].target]

\* range_of with the range of the node itself for a node without edges.
range_of_self_when_empty(target_id) ==
    LET es == At(edges, target_id) IN
    IF es = <<>> THEN [start |-> target_id, end |-> target_id + 1]
    ELSE [start |-> es[1].target, end |-> es[Len(es)].target + 1]

\* AdjacencyList::range_of
range_of(target_id) ==
    LET es == At(edges, target_id) IN
    IF es = <<>> THEN [start |-> 0, end |-> 0]
    ELSE [start |-> es[1].target, end |-> es[Len(es)].target + 1]

\* vec_of_nones!
vec_of(size, x) == [i \in 1..size |-> x]

\* One iteration of the loop of AdjacencyList::new.
AdjacencyStep ==
    /\ pc = "adjacency"
    /\ queue # <<>>
    /\ LET it == Head(queue)
           slot == push(it.parent_id, it.label, it.node)
           exp == IF slot.is_new THEN Expand(it.scope, slot.id, it.node)
                  ELSE [status |-> "none", scope |-> it.scope, items |-> <<>>]
       IN  /\ nodes' = slot.nodes
           /\ edges' = slot.edges
           /\ visited' = slot.visited
           /\ scopes' = IF slot.is_new THEN Append(scopes, it.scope) ELSE scopes
           /\ queue' = Tail(queue) \o exp.items
           /\ pc' = IF exp.status \in {"err", "panic"} THEN "done" ELSE "adjacency"
           /\ outcome' = CASE exp.status = "err" -> Err("resolving")
                           [] exp.status = "panic" -> Panic("Unknown reference")
                           [] OTHER -> outcome
    /\ UNCHANGED <<documents, range_graph>>

-----------------------------------------------------------------------------
(* Keyword, RangedEdge, RangeGraph *)

Keyword(kw, ty, range) == [kw |-> kw, ty |-> ty, start |-> range.start, end |-> range.end]

NoRange == [start |-> 0, end |-> 0]

\* None, in RangeGraph.nodes
NoKeyword == Keyword("None", "", NoRange)

\* Some(RangedEdge::new(label, nodes))
RangedEdge(label, range) ==
    [some |-> TRUE, label |-> label, start |-> range.start, end |-> range.end]

\* None, in RangeGraph.edges
NoRangedEdge == [some |-> FALSE, label |-> Index(0), start |-> 0, end |-> 0]

\* AdjacencyDone with the edge slots of the range graph one short.
AdjacencyDone_one_slot_short ==
    /\ pc = "adjacency"
    /\ queue = <<>>
    /\ pc' = "range"
    /\ range_nodes' = vec_of(Len(nodes), NoKeyword)
    /\ range_edges' = vec_of(Len(edges) - 1, NoRangedEdge)
    /\ range_visited' = vec_of(Len(nodes), FALSE)
    /\ range_queue' = <<0>>
    /\ UNCHANGED <<documents, adjacency_list, outcome>>

\* The queue is empty: AdjacencyList::new returns Ok(output), and
\* RangeGraph::try_from starts on it.
AdjacencyDone ==
    /\ pc = "adjacency"
    /\ queue = <<>>
    /\ pc' = "range"
    /\ range_nodes' = vec_of(Len(nodes), NoKeyword)
    /\ range_edges' = vec_of(Len(edges), NoRangedEdge)
    /\ range_visited' = vec_of(Len(nodes), FALSE)
    /\ range_queue' = <<0>>
    /\ UNCHANGED <<documents, adjacency_list, outcome>>

\* Value::as_u64
as_u64(value) == value.kind = "scalar" /\ value.scal = "uint"

\* Value::as_str
as_str(value) == value.kind = "scalar" /\ IsString(value.scal)

\* The names the `type` arm of RangeGraph::try_from maps to a ValueType.
TypeNames == {"array", "boolean", "integer", "null", "number", "object", "string"}

\* RangeGraph::set_node
set_node(out, id, keyword) == [out EXCEPT !.nodes[id + 1] = keyword]

\* RangeGraph::set_edge
set_edge(out, id, label, range) ==
    [out EXCEPT !.edges[id + 1] = RangedEdge(label, range)]

\* set_many_edges with the range of the edge's target itself, not of the
\* target's children.
RECURSIVE set_many_edges_of_targets(_, _)
set_many_edges_of_targets(out, es) ==
    IF es = <<>> THEN out
    ELSE LET id == Head(es).target
         IN  set_many_edges_of_targets(
                 set_edge(out, id, Head(es).label, [start |-> id, end |-> id + 1]),
                 Tail(es))

\* RangeGraph::set_many_edges
RECURSIVE set_many_edges(_, _)
set_many_edges(out, es) ==
    IF es = <<>> THEN out
    ELSE LET id == Head(es).target
         IN  set_many_edges(set_edge(out, id, Head(es).label, range_of(id)), Tail(es))

Panicked(out, message) == [out EXCEPT !.panic = message]

\* VisitEdge without the calls of set_many_edges.
VisitEdge_without_ranged_edges(out, edge) ==
    LET target_id == edge.target
        value == values[At(nodes, target_id)]
        key == as_key(edge.label)
    IN  CASE key = "maximum" ->
               IF as_u64(value) THEN set_node(out, target_id, Keyword("Maximum", "", NoRange))
               ELSE Panicked(out, "unwrap")
          [] key = "maxLength" ->
               IF as_u64(value) THEN set_node(out, target_id, Keyword("MaxLength", "", NoRange))
               ELSE Panicked(out, "unwrap")
          [] key = "minProperties" ->
               IF as_u64(value)
                 THEN set_node(out, target_id, Keyword("MinProperties", "", NoRange))
               ELSE Panicked(out, "unwrap")
          [] key = "type" ->
               IF ~as_str(value) THEN Panicked(out, "unwrap")
               ELSE IF value.scal \notin TypeNames THEN Panicked(out, "invalid type")
               ELSE set_node(out, target_id, Keyword("Type", value.scal, NoRange))
          [] key = "properties" ->
               set_node(out, target_id, Keyword("Properties", "", range_of(target_id)))
          [] key = "items" -> set_node(out, target_id, Keyword("Items", "", NoRange))
          [] key = "allOf" ->
               set_node(out, target_id, Keyword("AllOf", "", range_of(target_id)))
          [] key = "$ref" ->
               set_node(out, target_id, Keyword("Ref", "", range_of(target_id)))
          [] OTHER -> out

\* The body of `for edge in node_edges` in RangeGraph::try_from.
VisitEdge(out, edge) ==
    LET target_id == edge.target
        value == values[At(nodes, target_id)]
        key == as_key(edge.label)
    IN  CASE key = "maximum" ->
               IF as_u64(value) THEN set_node(out, target_id, Keyword("Maximum", "", NoRange))
               ELSE Panicked(out, "unwrap")
          [] key = "maxLength" ->
               IF as_u64(value) THEN set_node(out, target_id, Keyword("MaxLength", "", NoRange))
               ELSE Panicked(out, "unwrap")
          [] key = "minProperties" ->
               IF as_u64(value)
                 THEN set_node(out, target_id, Keyword("MinProperties", "", NoRange))
               ELSE Panicked(out, "unwrap")
          [] key = "type" ->
               IF ~as_str(value) THEN Panicked(out, "unwrap")
               ELSE IF value.scal \notin TypeNames THEN Panicked(out, "invalid type")
               ELSE set_node(out, target_id, Keyword("Type", value.scal, NoRange))
          [] key = "properties" ->
               set_many_edges(
                   set_node(out, target_id, Keyword("Properties", "", range_of(target_id))),
                   At(edges, target_id))
          [] key = "items" -> set_node(out, target_id, Keyword("Items", "", NoRange))
          [] key = "allOf" ->
               set_many_edges(
                   set_node(out, target_id, Keyword("AllOf", "", range_of(target_id))),
                   At(edges, target_id))
          [] key = "$ref" ->
               set_node(out, target_id, Keyword("Ref", "", range_of(target_id)))
          [] OTHER -> out

\* `for edge in node_edges`, up to the edge that panics.
RECURSIVE VisitEdges(_, _)
VisitEdges(out, es) ==
    IF es = <<>> \/ out.panic # "" THEN out
    ELSE VisitEdges(VisitEdge(out, Head(es)), Tail(es))

\* RangeStep without the `if visited[node_id.value()] { continue; }`.
RangeStep_revisiting ==
    /\ pc = "range"
    /\ range_queue # <<>>
    /\ LET node_id == Head(range_queue)
           node_edges == At(edges, node_id)
           targets == [k \in 1..Len(node_edges) |-> node_edges[k].target]
           before == [nodes |-> range_nodes, edges |-> range_edges, panic |-> ""]
           out == IF is_root(node_id) THEN before ELSE VisitEdges(before, node_edges)
       IN  /\ range_visited' = [range_visited EXCEPT ![node_id + 1] = TRUE]
           /\ range_queue' = Tail(range_queue) \o targets
           /\ range_nodes' = out.nodes
           /\ range_edges' = out.edges
           /\ pc' = IF out.panic # "" THEN "done" ELSE "range"
           /\ outcome' = IF out.panic # "" THEN Panic(out.panic) ELSE outcome
    /\ UNCHANGED <<documents, adjacency_list>>

\* One iteration of the loop of RangeGraph::try_from.
RangeStep ==
    /\ pc = "range"
    /\ range_queue # <<>>
    /\ LET node_id == Head(range_queue)
           node_edges == At(edges, node_id)
           targets == [k \in 1..Len(node_edges) |-> node_edges[k].target]
           before == [nodes |-> range_nodes, edges |-> range_edges, panic |-> ""]
           out == IF is_root(node_id) THEN before ELSE VisitEdges(before, node_edges)
       IN  IF At(range_visited, node_id)
             THEN /\ range_queue' = Tail(range_queue)
                  /\ UNCHANGED <<range_nodes, range_edges, range_visited, pc, outcome>>
             ELSE /\ range_visited' = [range_visited EXCEPT ![node_id + 1] = TRUE]
                  /\ range_queue' = Tail(range_queue) \o targets
                  /\ range_nodes' = out.nodes
                  /\ range_edges' = out.edges
                  /\ pc' = IF out.panic # "" THEN "done" ELSE "range"
                  /\ outcome' = IF out.panic # "" THEN Panic(out.panic) ELSE outcome
    /\ UNCHANGED <<documents, adjacency_list>>

\* The queue is empty: RangeGraph::try_from returns Ok(output), and `build`
\* calls compress on it.
RangeDone ==
    /\ pc = "range"
    /\ range_queue = <<>>
    /\ pc' = "compress"
    /\ UNCHANGED <<documents, adjacency_list, range_graph, outcome>>

\* RangeGraph::compress
compress ==
    /\ pc = "compress"
    /\ pc' = "done"
    /\ outcome' = Panic("not yet implemented")
    /\ UNCHANGED <<documents, adjacency_list, range_graph>>

-----------------------------------------------------------------------------
(* The documents `build` is given.                                         *)

\* {"allOf": [{"$ref": "#/x"}, {"$ref": "#/x"}], "x": {"type": "string"}}
SharedTargetDocument ==
    <<Val(0, "object", "", ""),
      Val(1, "array", "allOf", ""),
      Val(1, "object", "x", ""),
      [Val(2, "object", "", "") EXCEPT !.ref = Ref("local", Url(0, 0), <<Key("x")>>)],
      [Val(2, "object", "", "") EXCEPT !.ref = Ref("local", Url(0, 0), <<Key("x")>>)],
      Val(3, "scalar", "type", "string")>>

\* {"properties": {"a": {"type": "string"}, "b": {"type": "integer"}}}
PropertiesDocument ==
    <<Val(0, "object", "", ""),
      Val(1, "object", "properties", ""),
      Val(2, "object", "a", ""),
      Val(2, "object", "b", ""),
      Val(3, "scalar", "type", "string"),
      Val(4, "scalar", "type", "integer")>>

\* {"$ref": "#"}
SelfReferenceDocument ==
    <<[Val(0, "object", "", "") EXCEPT !.ref = Ref("local", Url(0, 0), <<>>)]>>

\* {"allOf": [{"maxLength": 5}, {"minProperties": 1}], "items": {}}
KeywordsDocument ==
    <<Val(0, "object", "", ""),
      Val(1, "array", "allOf", ""),
      Val(1, "object", "items", ""),
      Val(2, "object", "", ""),
      Val(2, "object", "", ""),
      Val(4, "scalar", "maxLength", "uint"),
      Val(5, "scalar", "minProperties", "uint")>>

\* The generated document sets: a forest, `$ref` members added to some of
\* its objects, at most NumValues values in all.  The registry holds the
\* documents that were fetched because a reference names them, so an
\* external document is one some reference names.
InitGenerated ==
    \E d \in Forests(NumValues) :
    \E e \in IF HasExternal(d) THEN {0, 1} ELSE {0} :
    \E S \in {T \in SUBSET Objects(d) : Len(d) + Cardinality(T) <= NumValues} :
    \E r \in [S -> RefValues(d, e)] :
        /\ values = [v \in ValueIds(d) |->
                        IF v \in S THEN [d[v] EXCEPT !.ref = r[v]] ELSE d[v]]
        /\ ext_dir = e
        /\ HasExternal(d) => NamesExternal(values, e)
        /\ \A v \in ValueIds(d) : d[v].kind = "array" => ChildIds(d, v) # {}

\* AdjacencyList::empty, and the first item of the queue.
Init ==
    /\ \/ InitGenerated
       \/ /\ values \in {SharedTargetDocument, PropertiesDocument, KeywordsDocument}
          /\ ext_dir = 0
    /\ nodes = <<0>>
    /\ edges = <<<<>>>>
    /\ visited = <<>>
    /\ scopes = <<ScopeNew(1)>>
    /\ queue = <<Item(ScopeNew(1), 0, Index(0), 1)>>
    /\ range_nodes = <<>>
    /\ range_edges = <<>>
    /\ range_visited = <<>>
    /\ range_queue = <<>>
    /\ pc = "adjacency"
    /\ outcome = Running

Next ==
    \/ AdjacencyStep
    \/ AdjacencyDone
    \/ RangeStep
    \/ RangeDone
    \/ compress

Spec == Init /\ [][Next]_vars

\* `build` runs without suspension: a step that can be taken is taken.
FairSpec == Spec /\ WF_vars(Next)

-----------------------------------------------------------------------------
(* Properties *)

\* AdjacencyList::new has returned Ok: RangeGraph::try_from was started.
AdjacencyFinished == range_visited # <<>>

\* RangeGraph::try_from has returned Ok.
RangeFinished == pc \in {"compress", "done"} /\ AdjacencyFinished /\ range_queue = <<>>

RealNodeIds == 1..(Len(nodes) - 1)

\* The edges that target node t, as (source, position) pairs.
Inbound(t) ==
    {<<i, k>> \in NodeIds \X (1..NumValues + 2) :
        k <= Len(At(edges, i)) /\ At(edges, i)[k].target = t}

\* C1: once AdjacencyList::new has finished, no value is held by two
\* NodeIds, the visited map names the one NodeId of every value, and the
\* edges of every node target, member by member, the NodeId of the value
\* the member leads to (the resolved target for a `$ref` member), however
\* many paths lead to that value.
C1_OneNodePerValue ==
    AdjacencyFinished =>
        /\ \A i, j \in NodeIds : At(nodes, i) = At(nodes, j) => i = j
        /\ \A i \in RealNodeIds :
             LET items == Expand(At(scopes, i), i, At(nodes, i)).items
                 es == At(edges, i)
             IN  /\ visited[At(nodes, i)] = i
                 /\ Len(es) = Len(items)
                 /\ \A k \in 1..Len(es) :
                      /\ At(nodes, es[k].target) = items[k].node
                      /\ es[k].target = visited[items[k].node]

\* C1: two sibling objects refer to one value, which has one node with
\* their two `$ref` edges inbound.
C1_Witness ==
    /\ AdjacencyFinished
    /\ \E t \in RealNodeIds : \E a, b \in Inbound(t) :
         /\ a[1] # b[1]
         /\ At(edges, a[1])[a[2]].label = Key("$ref")
         /\ At(edges, b[1])[b[2]].label = Key("$ref")
         /\ values[At(nodes, a[1])].parent = values[At(nodes, b[1])].parent
         /\ Cardinality({n \in RealNodeIds : At(nodes, n) = At(nodes, t)}) = 1

\* The scope in which the traversal reaches value v when it descends to it
\* from the root of v's document.
ScopeOf(v) ==
    LET doc == DocOf(values, v)
    IN  with_folders(doc, Pointer(values, doc, PathOf(values, v)).folders)

\* The values one step from v: its members, the target of its `$ref` in
\* place of the reference string.
Successors(v) ==
    LET items == Expand(ScopeOf(v), 0, v).items
    IN  {items[k].node : k \in 1..Len(items)}

RECURSIVE Closure(_)
Closure(S) ==
    LET T == S \cup UNION {Successors(v) : v \in S}
    IN  IF T = S THEN S ELSE Closure(T)

\* The distinct values reachable from the schema.
Reachable == Closure({1})

\* Some reference leads back to the object that holds it: to itself or an
\* ancestor, directly or through other references and documents.
Cyclic == \E v \in Reachable : v \in Closure(Successors(v))

\* The number of items dequeued: one edge is appended for each.
Traversals ==
    LET RECURSIVE Sum(_)
        Sum(i) == IF i > Len(edges) THEN 0 ELSE Len(edges[i]) + Sum(i + 1)
    IN  Sum(1)

\* C2: on a document set with a reference cycle the loop of
\* AdjacencyList::new stops; when it stops by returning the list, the queue
\* is empty and there are as many non-sentinel nodes as distinct reachable
\* values, whatever the number of items traversed.
C2_CyclesTerminate ==
    /\ [](Cyclic => <>(pc # "adjacency"))
    /\ [](Cyclic /\ AdjacencyFinished =>
            /\ queue = <<>>
            /\ Len(nodes) - 1 = Cardinality(Reachable)
            /\ {At(nodes, i) : i \in RealNodeIds} = Reachable)

\* C2: a cycle in the external document, reached from the schema, was
\* traversed to the end, with more items traversed than there are values.
C2_Witness ==
    /\ Cyclic
    /\ AdjacencyFinished
    /\ \E v \in Reachable : DocOf(values, v) = 2 /\ v \in Closure(Successors(v))
    /\ Traversals > Cardinality(Reachable)

\* C3: in the finished adjacency list, the range_of of every node with two
\* or more outgoing edges is as long as the node has edges, and every index
\* in it is the target of exactly one of them.
C3_Contiguity ==
    AdjacencyFinished =>
        \A i \in NodeIds :
            LET es == At(edges, i)
                range == range_of(i)
            IN  Len(es) >= 2 =>
                  /\ range.start <= range.end
                  /\ range.end - range.start = Len(es)
                  /\ \A x \in range.start..(range.end - 1) :
                       Cardinality({k \in 1..Len(es) : es[k].target = x}) = 1

\* The slots of the range graph that hold a keyword, in their order.
KeywordSlots == SelectSeq(range_nodes, LAMBDA k : k.kw # "None")

\* C4: when the references resolve and the range graph is derived, `build`
\* ends with the graph compress returns: exactly the slots that held a
\* keyword, in their order, every range within the surviving nodes.
C4_CompressReturns ==
    RangeFinished /\ pc = "done" =>
        /\ outcome.kind = "Ok"
        /\ Len(outcome.nodes) = Len(KeywordSlots)
        /\ \A k \in 1..Len(outcome.nodes) :
             /\ outcome.nodes[k].kw = KeywordSlots[k].kw
             /\ outcome.nodes[k].ty = KeywordSlots[k].ty
             /\ outcome.nodes[k].start <= outcome.nodes[k].end
             /\ outcome.nodes[k].end <= Len(outcome.nodes)

\* How the `$ref` member of node i ends when the node is expanded.
RefStatus(i) ==
    LET v == At(nodes, i)
    IN  IF values[v].kind # "object" THEN "none"
        ELSE ResolveRef(track_folder(At(scopes, i), v), values[v].ref).status

\* C5: when the reference of an expanded node does not parse, join or
\* resolve, `build` has ended by returning the error, which carries no
\* node and no edge, and no range graph was started.
C5_ErrorsAbort ==
    \A i \in RealNodeIds :
        RefStatus(i) = "err" =>
            /\ pc = "done"
            /\ outcome.kind = "Err"
            /\ outcome.nodes = <<>>
            /\ outcome.edges = <<>>
            /\ range_nodes = <<>>
            /\ range_edges = <<>>

\* C5: a reference failed after other nodes and edges had been appended.
C5_Witness ==
    /\ \E i \in RealNodeIds : i >= 2 /\ RefStatus(i) = "err"
    /\ Len(nodes) >= 3
    /\ Traversals >= 2
    /\ outcome.kind = "Err"

\* An edge labelled with a recognized keyword whose target has the wrong
\* shape for it.
WrongShape(edge) ==
    LET value == values[At(nodes, edge.target)]
        key == as_key(edge.label)
    IN  \/ key \in {"maximum", "maxLength", "minProperties"} /\ ~as_u64(value)
        \/ key = "type" /\ (~as_str(value) \/ value.scal \notin TypeNames)

\* The nodes whose edges RangeGraph::try_from has inspected.
Inspected == {i \in RealNodeIds : AdjacencyFinished /\ At(range_visited, i)}

\* C6: when RangeGraph::try_from has met an edge of a recognized keyword
\* whose target has the wrong shape, `build` has ended by returning an
\* error, and no range graph is returned.
C6_WrongShapeIsAnError ==
    \A i \in Inspected :
        (\E k \in 1..Len(At(edges, i)) : WrongShape(At(edges, i)[k])) =>
            /\ pc = "done"
            /\ outcome.kind = "Err"
            /\ outcome.nodes = <<>>

\* The absolute location the string `$ref` of node i names, as a set: the
\* URL itself for an absolute reference, the URL build_url joins for a
\* relative reference that is not local.
Locations(i) ==
    LET v == At(nodes, i)
        ref == values[v].ref
        scope == track_folder(At(scopes, i), v)
        built == build_url(scope, ResolverScope(scope.resolver), ref)
    IN  CASE values[v].kind # "object" -> {}
          [] ref.cls = "absolute" -> {Url(ref.dir, ref.file)}
          [] ref.cls = "relative" /\ built.ok -> {built.url}
          [] OTHER -> {}

\* The location is in no document at hand: the registry holds no resolver
\* for it and the resolver of node i's scope does not contain it.
Unregistered(i, location) ==
    /\ resolvers_get(location) = {}
    /\ ~contains(At(scopes, i).resolver, location)

\* C7 as stated: whenever the reference of an expanded node names an
\* absolute location in no document at hand, `build` has panicked.
C7_UnknownLocationPanics ==
    \A i \in RealNodeIds : \A location \in Locations(i) :
        Unregistered(i, location) => pc = "done" /\ outcome.kind = "panic"

\* C7, amended: whenever a relative reference of an expanded node is joined
\* to an absolute location in no document at hand, `build` has panicked
\* with "Unknown reference"; a reference that is such a location itself is
\* resolved in the resolver of the scope: `build` has returned the error of
\* a pointer that finds nothing, and otherwise node i, when the last one
\* expanded, is not where a panic came from.
C7_UnknownRelativePanics ==
    \A i \in RealNodeIds : \A location \in Locations(i) :
        Unregistered(i, location) =>
            LET ref == values[At(nodes, i)].ref
                got == resolve(At(scopes, i).resolver, ref)
            IN  CASE ref.cls = "relative" ->
                       pc = "done" /\ outcome = Panic("Unknown reference")
                  [] got.value = 0 ->
                       pc = "done" /\ outcome = Err("resolving")
                  [] OTHER ->
                       ~(outcome = Panic("Unknown reference") /\ i = Len(nodes) - 1)

\* C7: a relative reference below other nodes named an unregistered
\* location, and `build` panicked.
C7_Witness ==
    /\ \E i \in RealNodeIds : \E location \in Locations(i) :
         /\ i >= 2
         /\ values[At(nodes, i)].ref.cls = "relative"
         /\ Unregistered(i, location)
    /\ outcome.kind = "panic"

\* The resolver and the value the string `$ref` of node i designates when it
\* names, by absolute location, a sub-value of a registered document other
\* than the one being traversed; as a set of at most one pair.
CrossDocument(i) ==
    LET v == At(nodes, i)
        ref == values[v].ref
    IN  IF values[v].kind = "object" /\ ref.cls = "absolute"
          THEN {<<r, Pointer(values, r, ref.ptr).value>> :
                    r \in {r \in resolvers_get(Url(ref.dir, ref.file)) :
                             /\ r # At(scopes, i).resolver
                             /\ Pointer(values, r, ref.ptr).value # 0}}
          ELSE {}

\* C8: once AdjacencyList::new has finished, every node whose `$ref` names by
\* absolute location a sub-value of another, registered document has one
\* edge labelled `$ref`, its target is the node of that sub-value, no node
\* holds the reference string, and the target and the children of the
\* target have the scope of the target document's resolver.
C8_CrossDocument ==
    AdjacencyFinished =>
        \A i \in RealNodeIds : \A rt \in CrossDocument(i) :
            LET refs == {k \in 1..Len(At(edges, i)) :
                            At(edges, i)[k].label = Key("$ref")}
            IN  /\ Cardinality(refs) = 1
                /\ \A k \in refs :
                     LET child == At(edges, i)[k].target
                     IN  /\ At(nodes, child) = rt[2]
                         /\ DocOf(values, At(nodes, child)) = rt[1]
                         /\ At(scopes, child).resolver = rt[1]
                         /\ \A j \in 1..Len(At(edges, child)) :
                              At(scopes, At(edges, child)[j].target).resolver = rt[1]
                /\ \A n \in NodeIds : At(nodes, n) # -At(nodes, i)

\* C8: the schema refers to a registered document, and the designated value
\* has a child of its own.
C8_Witness ==
    /\ AdjacencyFinished
    /\ \E i \in RealNodeIds : \E rt \in CrossDocument(i) :
         /\ DocOf(values, At(nodes, i)) = 1
         /\ \E k \in 1..Len(At(edges, i)) :
              /\ At(edges, i)[k].label = Key("$ref")
              /\ At(edges, At(edges, i)[k].target) # <<>>

\* The nodes whose slot of the range graph holds a keyword of kind kw.
Holding(kw) == {n \in NodeIds : At(range_nodes, n).kw = kw}

Type(ty) == Keyword("Type", ty, NoRange)

C10_OneNodeBesidesReference ==
    values = SelfReferenceDocument /\ RangeFinished =>
        \E r \in Holding("Ref") :
            /\ Cardinality(RealNodeIds \ {r}) = 1
            /\ At(range_nodes, r).start = range_of(1).start
            /\ At(range_nodes, r).end = range_of(1).end

\* C10, amended: for SelfReferenceDocument the traversal never holds more
\* than the sentinel and the root, and the finished graph has exactly one
\* node that is not the sentinel: the root, target of its own `$ref` edge,
\* which holds the Ref keyword, whose range 1..2 is the root's own child
\* range.
C10_SelfReference ==
    values = SelfReferenceDocument =>
        /\ Len(nodes) <= 2
        /\ Len(queue) <= 1
        /\ RangeFinished =>
             /\ nodes = <<0, 1>>
             /\ edges = <<<<Edge(Index(0), 1)>>, <<Edge(Key("$ref"), 1)>>>>
             /\ Holding("Ref") = {1}
             /\ At(range_nodes, 1) = Keyword("Ref", "", [start |-> 1, end |-> 2])
             /\ range_of(1) = [start |-> 1, end |-> 2]
             /\ At(range_edges, 1) = NoRangedEdge

\* C10: the range graph of SelfReferenceDocument has been derived.
C10_Witness ==
    /\ values = SelfReferenceDocument
    /\ RangeFinished
    /\ At(range_visited, 1)

\* The edge a step of AdjacencyList::new appends: the last edge of the
\* dequeued item's parent.
Pushed == LET es == At(edges', Head(queue).parent_id) IN es[Len(es)]

\* A step of AdjacencyList::new appends exactly one edge, to the edges of
\* the dequeued item's parent.
OneEdgePushed ==
    LET parent_id == Head(queue).parent_id IN
    /\ Len(At(edges', parent_id)) = Len(At(edges, parent_id)) + 1
    /\ \A i \in NodeIds :
         At(edges', i) = IF i = parent_id THEN Append(At(edges, i), Pushed)
                         ELSE At(edges, i)

\* A step that allocates a node: the edge it appends is the first to target
\* the node, and comes from a smaller NodeId.
Discovers ==
    /\ nodes' = Append(nodes, Head(queue).node)
    /\ Len(edges') = Len(edges) + 1
    /\ At(edges', Len(nodes)) = <<>>
    /\ Pushed.target = Len(nodes)
    /\ Head(queue).parent_id < Pushed.target
    /\ \A i \in NodeIds : \A k \in 1..Len(At(edges, i)) :
         At(edges, i)[k].target # Pushed.target

\* A step that allocates no node: the edge it appends targets a node
\* discovered before, and nothing is enqueued.
Revisits ==
    /\ nodes' = nodes
    /\ Len(edges') = Len(edges)
    /\ Pushed.target \in RealNodeIds
    /\ Inbound(Pushed.target) # {}
    /\ queue' = Tail(queue)

\* C11: in every state of AdjacencyList::new every node but the sentinel is
\* the target of an edge from a smaller NodeId, and every step appends one
\* edge: either the discovery edge of the node the same push allocates,
\* from a smaller NodeId to a node no edge targeted, or a further edge to a
\* node discovered before, which enqueues nothing.
C11_OneDiscoveryEdge ==
    /\ [](\A t \in RealNodeIds : \E e \in Inbound(t) : e[1] < t)
    /\ [][pc = "adjacency" /\ queue # <<>> =>
            OneEdgePushed /\ (Discovers \/ Revisits)]_vars

\* C11: a node has, besides its discovery edge, an edge from itself or
\* from a node discovered after it.
C11_Witness ==
    /\ pc = "adjacency"
    /\ \E t \in RealNodeIds : \E a, b \in Inbound(t) :
         /\ a[1] < t
         /\ b[1] >= t
    /\ Len(nodes) >= 3

\* The edges of node i that do not come from a `$ref` member.
MemberEdges(i) == SelectSeq(At(edges, i), LAMBDA e : e.label # Key("$ref"))

\* The edges of node i stand in the order of enumeration: the edges of the
\* members follow the members, first to last, and the edge of the `$ref`
\* member stands where the key sorts, after `$id` and before the rest.
InEnumerationOrder(i) ==
    LET es == At(edges, i)
        plain == MemberEdges(i)
        members == Members(values, At(nodes, i))
    IN  /\ Len(plain) <= Len(members)
        /\ \A k \in 1..Len(plain) :
             /\ plain[k].label = LabelOf(values, members[k])
             /\ At(nodes, plain[k].target) = members[k]
        /\ \A k \in 1..Len(es) : es[k].label = Key("$ref") =>
             /\ \A j \in 1..(k - 1) : es[j].label = Key("$id")
             /\ \A j \in (k + 1)..Len(es) : es[j].label \notin {Key("$id"), Key("$ref")}

\* C12: while AdjacencyList::new runs the edges of every node stand in the
\* order in which the node's members were enumerated (object key order,
\* array position order), and in the finished list the edge of every
\* enumerated member is there, though appended one dequeue at a time.
C12_EnumerationOrder ==
    \A i \in RealNodeIds :
        /\ InEnumerationOrder(i)
        /\ AdjacencyFinished =>
             Len(MemberEdges(i)) = Len(Members(values, At(nodes, i)))

\* C12: in the finished list a node below the root has the edges of
\* several members, and the edges of another node were appended after they
\* were enqueued.
C12_Witness ==
    /\ AdjacencyFinished
    /\ \E i, j \in RealNodeIds :
         /\ i >= 2
         /\ j # i
         /\ Len(At(edges, i)) >= 2
         /\ At(edges, j) # <<>>
         /\ At(edges, i)[1].label # At(edges, i)[2].label

\* The number of members of the container node i holds, the `$ref` member
\* of an object among them, whatever its value.
MemberCount(i) ==
    LET v == values[At(nodes, i)]
    IN  Len(Members(values, At(nodes, i)))
        + (IF v.kind = "object" /\ v.ref.cls # "none" THEN 1 ELSE 0)

\* C13: once AdjacencyList::new has returned the list, every node has one
\* outgoing edge per member or element of its value: a `$ref` member gives
\* one edge labelled `$ref`, every other member one edge labelled with its
\* key, every element one edge labelled with its position.
C13_OneEdgePerMember ==
    AdjacencyFinished =>
        \A i \in RealNodeIds :
            LET v == values[At(nodes, i)]
                es == At(edges, i)
                members == Members(values, At(nodes, i))
            IN  /\ Len(es) = MemberCount(i)
                /\ \A k \in 1..Len(members) :
                     Cardinality({j \in 1..Len(es) :
                                    es[j].label = LabelOf(values, members[k])}) = 1
                /\ v.kind = "object" /\ v.ref.cls # "none" =>
                     Cardinality({j \in 1..Len(es) : es[j].label = Key("$ref")}) = 1

\* A step of RangeGraph::try_from on a node visited before: the item is
\* dropped, nothing is processed and nothing enqueued.
SkipsVisited ==
    /\ range_queue' = Tail(range_queue)
    /\ UNCHANGED <<range_nodes, range_edges, range_visited>>

\* A step of RangeGraph::try_from on a node not visited before: the node is
\* marked and the targets of its edges, one per edge, are enqueued.
ProcessesOnce ==
    LET node_id == Head(range_queue) IN
    /\ ~At(range_visited, node_id)
    /\ range_visited' = [range_visited EXCEPT ![node_id + 1] = TRUE]
    /\ Len(range_queue') = Len(range_queue) - 1 + Len(At(edges, node_id))

\* C14: RangeGraph::try_from ends on every adjacency list, those with
\* self-edges and cycles too; a step processes the edges of a node only if
\* the node was not visited before, and marks it, so no node is processed
\* twice however many edges target it; and when try_from returns, every
\* node has been processed.
C14_RangeTraversalEnds ==
    /\ [](AdjacencyFinished => <>(pc # "range"))
    /\ [][pc = "range" /\ range_queue # <<>> =>
            IF At(range_visited, Head(range_queue))
              THEN SkipsVisited ELSE ProcessesOnce]_vars
    /\ [](RangeFinished => \A n \in NodeIds : At(range_visited, n))

\* C14: RangeGraph::try_from has returned on a list in which a node is the
\* target of two edges, one of them from itself or from a node discovered
\* after it.
C14_Witness ==
    /\ RangeFinished
    /\ \E t \in RealNodeIds : \E a, b \in Inbound(t) :
         /\ a # b
         /\ b[1] >= t
         /\ At(range_visited, t)

\* The keys RangeGraph::try_from builds a keyword for.
Recognized ==
    {"maximum", "maxLength", "minProperties", "type", "properties", "items", "allOf", "$ref"}

\* The keyword RangeGraph::try_from assigns to the target of `edge`.
Built(edge) ==
    At(VisitEdge([nodes |-> range_nodes, edges |-> range_edges, panic |-> ""],
                 edge).nodes, edge.target)

\* The edges to node n for which try_from has assigned n a keyword: those
\* of the processed nodes, the sentinel apart, with a recognized label and
\* a target of the right shape.
Assigning(n) ==
    {e \in {At(edges, a[1])[a[2]] : a \in {b \in Inbound(n) : b[1] \in Inspected}} :
        as_key(e.label) \in Recognized /\ ~WrongShape(e)}

\* C15: in every state of RangeGraph::try_from the edges that assigned a
\* node its keyword all built one and the same keyword, so no slot that
\* held a keyword was overwritten by a different one.
C15_AssignedOnce ==
    AdjacencyFinished =>
        \A n \in RealNodeIds : Cardinality({Built(e) : e \in Assigning(n)}) <= 1

\* The edges at a non-schema position whose label is nevertheless the name
\* of a keyword: the edges of a processed node that is reached only as the
\* `properties` of the schema root, their labels being property names, to
\* targets no other edge leads to.
PropertyNames ==
    {e \in UNION {{At(edges, p)[k] : k \in 1..Len(At(edges, p))} :
                    p \in {q \in Inspected :
                             /\ Inbound(q) # {}
                             /\ \A a \in Inbound(q) :
                                  /\ a[1] = 1
                                  /\ At(edges, a[1])[a[2]].label = Key("properties")}} :
        /\ as_key(e.label) \in Recognized
        /\ Cardinality(Inbound(e.target)) = 1}

\* C16: RangeGraph::try_from builds no keyword for the target of an edge
\* whose label is a property name that equals a keyword name, and does not
\* panic on the shape of that target.
C16_PropertyNamesAreNoKeywords ==
    AdjacencyFinished =>
        \A e \in PropertyNames :
            /\ At(range_nodes, e.target) = NoKeyword
            /\ outcome.error \notin {"unwrap", "invalid type"}

\* The edges labelled with an aggregating keyword that try_from has
\* processed, and the keyword each builds.
Aggregating ==
    {e \in UNION {{At(edges, i)[k] : k \in 1..Len(At(edges, i))} : i \in Inspected} :
        as_key(e.label) \in {"properties", "allOf"}}

AggregateOf(e) == IF as_key(e.label) = "properties" THEN "Properties" ELSE "AllOf"

Leaves == {n \in NodeIds : At(edges, n) = <<>>}

\* C18: range_of gives a node with no outgoing edges the empty range 0..0,
\* and when try_from has returned, the Properties, AllOf or Ref keyword in
\* the slot of such a node carries that empty range.
C18_EmptyRange ==
    /\ \A n \in Leaves :
         /\ range_of(n).start = range_of(n).end
         /\ range_of(n) = [start |-> 0, end |-> 0]
    /\ RangeFinished =>
         \A n \in Leaves :
             At(range_nodes, n).kw \in {"Properties", "AllOf", "Ref"} =>
                 /\ At(range_nodes, n).start = At(range_nodes, n).end
                 /\ At(range_nodes, n).start = range_of(n).start
                 /\ At(range_nodes, n).end = range_of(n).end

\* C18: try_from has returned with a Properties keyword and a Ref keyword
\* in the slots of nodes without edges.
C18_Witness ==
    /\ RangeFinished
    /\ \E n, m \in Leaves \ {0} :
         /\ At(range_nodes, n).kw = "Properties"
         /\ At(range_nodes, m).kw = "Ref"

\* The lists of the adjacency list only grow: what was there stays.
Grows ==
    /\ Len(nodes') >= Len(nodes)
    /\ Len(edges') >= Len(edges)
    /\ \A i \in NodeIds :
         /\ At(nodes', i) = At(nodes, i)
         /\ Len(At(edges', i)) >= Len(At(edges, i))
         /\ SubSeq(At(edges', i), 1, Len(At(edges, i))) = At(edges, i)

\* C19: in every state the node and edge lists of the adjacency list have
\* one length and never shrink; the sentinel stays the node at index 0, no
\* edge targets it and no document value is mapped to it; the sentinel has
\* at most one edge, labelled with index 0, to the schema root at NodeId 1;
\* the source and the target of every edge are indices of the node list;
\* and once derived, the node and edge lists of the range graph have the
\* length of the adjacency list's.
C19_ListsAndSentinel ==
    /\ [](/\ Len(nodes) = Len(edges)
          /\ Len(nodes) >= 1
          /\ At(nodes, 0) = 0
          /\ \A v \in DOMAIN visited : visited[v] \in RealNodeIds /\ v \in ValueIds(values)
          /\ \A n \in RealNodeIds : At(nodes, n) \in ValueIds(values)
          /\ Len(At(edges, 0)) <= 1
          /\ \A k \in 1..Len(At(edges, 0)) :
               /\ At(edges, 0)[k] = Edge(Index(0), 1)
               /\ At(nodes, 1) = 1
          /\ \A i \in NodeIds : \A k \in 1..Len(At(edges, i)) :
               /\ At(edges, i)[k].target \in NodeIds
               /\ At(edges, i)[k].target # 0
          /\ AdjacencyFinished =>
               /\ Len(range_nodes) = Len(nodes)
               /\ Len(range_edges) = Len(edges)
               /\ Len(range_visited) = Len(nodes))
    /\ [][Grows]_vars

\* C19: RangeGraph::try_from has started on a list of four nodes or more,
\* one of them the target of several edges.
C19_Witness ==
    /\ pc = "range"
    /\ Len(range_edges) = Len(edges)
    /\ Len(nodes) >= 4
    /\ \E t \in RealNodeIds : Cardinality(Inbound(t)) >= 2

====
